---- MODULE Spec2Model ----
(***************************************************************************)
(* Multi-chain FeesCollected indexer: ScannerService (scanAllChains,       *)
(* scanChain, scanBlocks, scanBlockRange), EventService (storeEvents,      *)
(* getLastScannedBlock, updateLastScannedBlock), BlockchainService         *)
(* (loadFeeCollectorEvents) and the two MongoDB collections                *)
(* feeCollectedEvents and lastScannedBlocks.                               *)
(***************************************************************************)
EXTENDS Integers, Sequences, FiniteSets, Bags, TLC

(***************************************************************************)
(* Bounds of the model.                                                    *)
(***************************************************************************)
\* highest block number a provider reports as chain head
MaxHead == 3
\* largest configured CHUNK_SIZE
MaxChunk == 2
\* number of times the process is started
MaxRuns == 3
\* longest batch handed to storeEvents by a direct caller
MaxBatch == 2
\* longest ENABLED_CHAINS text a configuration is read from
MaxSetting == 4

(***************************************************************************)
(* Strings whose length the zod schemas test are kept as (text, length).   *)
(***************************************************************************)
AddressLen == 42
HashLen == 66
Str(t, n) == [text |-> t, len |-> n]
Addr(t) == Str(t, AddressLen)
Hash(t) == Str(t, HashLen)

(***************************************************************************)
(* Configuration.                                                          *)
(***************************************************************************)
\* the chains of ChainIds that are modelled: ETHEREUM and POLYGON
Chains == {1, 137}
\* config.chains[c].startBlock
StartBlock(c) == IF c = 1 THEN 0 ELSE 1
\* config.contractAddress
ContractAddress == Addr("feeCollector")

(***************************************************************************)
(* Error classes (instanceof tests only look at the class).                *)
(***************************************************************************)
BlockchainError == "BlockchainError"
DatabaseError == "DatabaseError"
ValidationError == "ValidationError"
\* a plain Error that is none of the AppError subclasses above
PlainError == "Error"
Ok == "ok"

(***************************************************************************)
(* Fee amounts.  The contract emits uint256 values, which ethers decodes   *)
(* to BigNumber: here the sequence of its limbs, most significant first.   *)
(* A string is the sequence of its characters.                             *)
(***************************************************************************)
Min(a, b) == IF a < b THEN a ELSE b

Max(a, b) == IF a > b THEN a ELSE b

DigitChars == <<"0", "1", "2", "3", "4", "5", "6", "7", "8", "9">>

\* the value of a decimal digit
DigitValue(ch) == CHOOSE k \in 0 .. 9 : DigitChars[k + 1] = ch

\* a uint256 is its sixteen 16-bit limbs, most significant first; a decimal
\* string is worked in groups of four digits
LimbBase == 65536
GroupBase == 10000

RECURSIVE StripZeros(_)
StripZeros(h) == IF h # << >> /\ Head(h) = 0 THEN StripZeros(Tail(h)) ELSE h

RECURSIVE StripZeroChars(_)
StripZeroChars(s) ==
    IF s # << >> /\ Head(s) = "0" THEN StripZeroChars(Tail(s)) ELSE s

\* long division of the number h by GroupBase, most significant limb
\* first: q the quotient limbs so far, r the remainder carried in
RECURSIVE DivGroup(_, _, _)
DivGroup(h, r, q) ==
    IF h = << >> THEN [q |-> q, r |-> r]
    ELSE DivGroup(Tail(h), (r * LimbBase + Head(h)) % GroupBase,
                  Append(q, (r * LimbBase + Head(h)) \div GroupBase))

\* the four decimal digits of r < GroupBase
FourDigits(r) ==
    << DigitChars[(r \div 1000) + 1], DigitChars[((r \div 100) % 10) + 1],
       DigitChars[((r \div 10) % 10) + 1], DigitChars[(r % 10) + 1] >>

\* the decimal digits of h in groups of four, the first group zero-padded
RECURSIVE ToDecimal(_)
ToDecimal(h) ==
    LET n == StripZeros(h)
    IN IF n = << >> THEN << >>
       ELSE LET d == DivGroup(n, 0, << >>)
            IN ToDecimal(d.q) \o FourDigits(d.r)

\* the number of bits of the limb n > 0
BitLength(n) == CHOOSE b \in 1 .. 16 : 2 ^ (b - 1) <= n /\ n < 2 ^ b

\* the value a double keeps of h: its 53 leading bits, the rest zero
ToDouble(h) ==
    LET n == StripZeros(h)
        bits == 16 * (Len(n) - 1) + BitLength(n[1])
        cleared(d) == Min(16, Max(0, (bits - 53) - 16 * (Len(n) - d)))
    IN [d \in DOMAIN n |-> (n[d] \div 2 ^ cleared(d)) * 2 ^ cleared(d)]

\* a conversion that goes through a JavaScript number
BigNumberToStringViaNumber(h) ==
    IF StripZeros(h) = << >> THEN <<"0">>
    ELSE StripZeroChars(ToDecimal(ToDouble(h)))

\* BigNumber.toString(): the decimal digits of the value
BigNumberToString(h) ==
    IF StripZeros(h) = << >> THEN <<"0">> ELSE StripZeroChars(ToDecimal(h))

\* uint256 values the contract emitted: small amounts, 2^53 + 1 and
\* 2^256 - 1
Fee10 == <<10>>
Fee20 == <<20>>
Fee50 == <<50>>
Fee99 == <<99>>
FeeAboveDouble == <<32, 0, 0, 1>>
FeeMaxUint256 == [k \in 1 .. 16 |-> LimbBase - 1]
LifiFee == <<5>>

(***************************************************************************)
(* The provider's logs.  A decoded log is a FeeCollectedEventData.         *)
(***************************************************************************)
\* what contract.interface.parseLog finds in a log: args[0..3] and the
\* fields of the log itself
RawLog(b, h, i, who, fee) ==
    [blockNumber |-> b, transactionHash |-> Hash(h), logIndex |-> i,
     address |-> ContractAddress,
     args |-> <<Addr("token"), Addr(who), fee, LifiFee>>]

\* eventObj of loadFeeCollectorEvents: the log with its args decoded
ParseLog(raw) ==
    [blockNumber |-> raw.blockNumber, transactionHash |-> raw.transactionHash,
     logIndex |-> raw.logIndex, address |-> raw.address,
     args |-> [token |-> raw.args[1], integrator |-> raw.args[2],
               integratorFee |-> BigNumberToString(raw.args[3]),
               lifiFee |-> BigNumberToString(raw.args[4])]]

Log(b, h, i, who, fee) == ParseLog(RawLog(b, h, i, who, fee))

\* the FeesCollected logs each chain holds, in block-then-log order; the
\* POLYGON log of block 3 has the transaction hash and log index of the
\* ETHEREUM log of block 1
EthereumLogs ==
    << RawLog(1, "0xa1", 0, "alice", Fee10),
       RawLog(2, "0xb2", 0, "bob", Fee20),
       RawLog(3, "0xc3", 0, "alice", FeeMaxUint256) >>

PolygonLogs ==
    << RawLog(2, "0xd4", 0, "alice", FeeAboveDouble),
       RawLog(3, "0xa1", 0, "bob", Fee50) >>

RawChainLogs(c) == IF c = 1 THEN EthereumLogs ELSE PolygonLogs

\* the logs of the chains as loadFeeCollectorEvents decodes them
EthereumEvents == [k \in DOMAIN EthereumLogs |-> ParseLog(EthereumLogs[k])]

PolygonEvents == [k \in DOMAIN PolygonLogs |-> ParseLog(PolygonLogs[k])]

ChainLogs(c) == IF c = 1 THEN EthereumEvents ELSE PolygonEvents


Range(s) == {s[i] : i \in DOMAIN s}

\* contract.queryFilter(filter, fromBlock, toBlock): both ends inclusive
QueryFilter(c, fromBlock, endBlock) ==
    SelectSeq(ChainLogs(c),
              LAMBDA e : fromBlock <= e.blockNumber /\ e.blockNumber <= endBlock)

(***************************************************************************)
(* zod schemas.                                                            *)
(***************************************************************************)
\* z.string().refine((val) => !isNaN(Number(val))): of the strings of the
\* model, those made of digits are numbers
IsNumberString(val) == \A k \in DOMAIN val : val[k] \in Range(DigitChars)

FeeCollectedArgsSchema(a) ==
    /\ a.token.len = AddressLen
    /\ a.integrator.len = AddressLen
    /\ IsNumberString(a.integratorFee)
    /\ IsNumberString(a.lifiFee)

FeeCollectedEventSchema(e) ==
    /\ FeeCollectedArgsSchema(e.args)
    /\ e.blockNumber >= 0
    /\ e.transactionHash.len = HashLen
    /\ e.logIndex >= 0

FeeCollectedEventDTOSchema(d) ==
    /\ d.chainId >= 0
    /\ d.contractAddress.len = AddressLen
    /\ d.token.len = AddressLen
    /\ d.integrator.len = AddressLen
    /\ IsNumberString(d.integratorFee)
    /\ IsNumberString(d.lifiFee)
    /\ d.blockNumber >= 0
    /\ d.transactionHash.len = HashLen
    /\ d.logIndex >= 0

(***************************************************************************)
(* feeCollectedEvents collection: a bag of documents with the unique       *)
(* index the model class declares.                                         *)
(***************************************************************************)
\* storeEvents' map of an event to its FeeCollectedEventDTO
ToDTO(e, chainId) ==
    [chainId |-> chainId,
     contractAddress |-> e.address,
     token |-> e.args.token,
     integrator |-> e.args.integrator,
     integratorFee |-> e.args.integratorFee,
     lifiFee |-> e.args.lifiFee,
     blockNumber |-> e.blockNumber,
     transactionHash |-> e.transactionHash,
     logIndex |-> e.logIndex]

\* the key storeEvents builds: `${chainId}_${transactionHash}_${logIndex}`
Key(d) == <<d.chainId, d.transactionHash, d.logIndex>>

\* @index({ transactionHash: 1, logIndex: 1 }, { unique: true })
IndexKey(d) == <<d.transactionHash, d.logIndex>>

Docs(coll) == BagToSet(coll)

\* an insert that replaces the stored document of the same index key
RECURSIVE InsertManyReplace(_, _)
InsertManyReplace(coll, docs) ==
    IF docs = << >> THEN [coll |-> coll, dup |-> FALSE]
    ELSE LET d == Head(docs)
             kept == {x \in Docs(coll) : IndexKey(x) # IndexKey(d)}
         IN InsertManyReplace(SetToBag(kept) (+) SetToBag({d}), Tail(docs))

\* insertMany on a collection that has no unique index
InsertManyNoIndex(coll, docs) ==
    [coll |-> coll (+) [d \in Range(docs) |->
                          Cardinality({i \in DOMAIN docs : docs[i] = d})],
     dup |-> FALSE]

\* an insertMany under a unique index on (chainId, transactionHash, logIndex)
RECURSIVE InsertManyChainIndex(_, _)
InsertManyChainIndex(coll, docs) ==
    IF docs = << >> THEN [coll |-> coll, dup |-> FALSE]
    ELSE LET d == Head(docs)
             clash == \E x \in Docs(coll) : Key(x) = Key(d)
             rest == InsertManyChainIndex(IF clash THEN coll ELSE coll (+) SetToBag({d}),
                                          Tail(docs))
         IN [coll |-> rest.coll, dup |-> clash \/ rest.dup]

\* insertMany(docs, { ordered: false }): every document whose index key is
\* free is inserted, the others raise a duplicate-key write error that is
\* reported after the whole batch was tried
RECURSIVE InsertMany(_, _)
InsertMany(coll, docs) ==
    IF docs = << >> THEN [coll |-> coll, dup |-> FALSE]
    ELSE LET d == Head(docs)
             clash == \E x \in Docs(coll) : IndexKey(x) = IndexKey(d)
             rest == InsertMany(IF clash THEN coll ELSE coll (+) SetToBag({d}),
                                Tail(docs))
         IN [coll |-> rest.coll, dup |-> clash \/ rest.dup]

\* FeeCollectedEventModel.find({ $or: [{chainId, transactionHash, logIndex}] })
FindExisting(coll, documents) ==
    {x \in Docs(coll) : \E i \in DOMAIN documents : Key(x) = Key(documents[i])}

\* keys built without the log index: `${e.chainId}_${e.transactionHash}`
ExistingKeysByHash(coll, documents) ==
    {Key(documents[i]) :
        i \in {j \in DOMAIN documents :
                 \E x \in Docs(coll) :
                    /\ x.chainId = documents[j].chainId
                    /\ x.transactionHash = documents[j].transactionHash}}

\* the Set of `${e.chainId}_${e.transactionHash}_${e.logIndex}` keys
ExistingKeys(coll, documents) == {Key(x) : x \in FindExisting(coll, documents)}

\* a storeEvents without the early return for an empty batch
StoreEventsNoEarlyReturn(coll, events, chainId, dbUp) ==
    LET documents == [i \in DOMAIN events |-> ToDTO(events[i], chainId)]
        existingKeys == ExistingKeys(coll, documents)
        newDocuments == SelectSeq(documents, LAMBDA d : Key(d) \notin existingKeys)
    IN IF ~dbUp THEN [coll |-> coll, res |-> DatabaseError]
       ELSE IF Len(newDocuments) = 0 THEN [coll |-> coll, res |-> Ok]
       ELSE IF \E i \in DOMAIN events : ~FeeCollectedEventSchema(events[i])
            THEN [coll |-> coll, res |-> ValidationError]
       ELSE IF \E i \in DOMAIN newDocuments : ~FeeCollectedEventDTOSchema(newDocuments[i])
            THEN [coll |-> coll, res |-> ValidationError]
       ELSE LET ins == InsertMany(coll, newDocuments)
            IN [coll |-> ins.coll,
                res |-> IF ins.dup THEN DatabaseError ELSE Ok]

\* EventService.storeEvents(events, chainId); dbUp = the database answers.
\* The result is the collection afterwards and "ok" or the class of the
\* error raised.
StoreEvents(coll, events, chainId, dbUp) ==
    IF Len(events) = 0 THEN [coll |-> coll, res |-> Ok]
    ELSE LET documents == [i \in DOMAIN events |-> ToDTO(events[i], chainId)]
             existingKeys == ExistingKeys(coll, documents)
             newDocuments == SelectSeq(documents, LAMBDA d : Key(d) \notin existingKeys)
         IN IF ~dbUp THEN [coll |-> coll, res |-> DatabaseError]
            ELSE IF Len(newDocuments) = 0 THEN [coll |-> coll, res |-> Ok]
            ELSE IF \E i \in DOMAIN events : ~FeeCollectedEventSchema(events[i])
                 THEN [coll |-> coll, res |-> ValidationError]
            ELSE IF \E i \in DOMAIN newDocuments : ~FeeCollectedEventDTOSchema(newDocuments[i])
                 THEN [coll |-> coll, res |-> ValidationError]
            ELSE LET ins == InsertMany(coll, newDocuments)
                 IN [coll |-> ins.coll,
                     res |-> IF ins.dup THEN DatabaseError ELSE Ok]

(***************************************************************************)
(* lastScannedBlocks collection: documents {chainId, blockNumber}.         *)
(***************************************************************************)
NoRecord == -1

\* LastScannedBlockModel.findOne({ chainId })
FindOne(blocks, chainId) == {b \in blocks : b.chainId = chainId}

\* blockNumber of the chain's record, NoRecord when there is none
Progress(blocks, chainId) ==
    IF FindOne(blocks, chainId) = {} THEN NoRecord
    ELSE (CHOOSE b \in FindOne(blocks, chainId) : TRUE).blockNumber

\* chainConfig?.startBlock || 0, chainConfig being config.chains[chainId]
StartBlockOrZero(chainId) == IF chainId \in Chains THEN StartBlock(chainId) ELSE 0

\* a getLastScannedBlock that answers from the configuration alone
GetLastScannedBlockFromConfig(blocks, chainId) == StartBlockOrZero(chainId)

\* EventService.getLastScannedBlock(chainId)
GetLastScannedBlock(blocks, chainId) ==
    IF FindOne(blocks, chainId) = {} THEN StartBlockOrZero(chainId)
    ELSE Progress(blocks, chainId)

\* an insert of a new record whether or not the chain has one
UpdateOneInsert(blocks, chainId, blockNumber) ==
    blocks \cup {[chainId |-> chainId, blockNumber |-> blockNumber]}

\* an upsert whose filter matches every record
UpdateOneNoFilter(blocks, chainId, blockNumber) ==
    {[chainId |-> chainId, blockNumber |-> blockNumber]}

\* updateOne({ chainId }, { $set: { blockNumber } }, { upsert: true })
UpdateOne(blocks, chainId, blockNumber) ==
    {b \in blocks : b.chainId # chainId}
        \cup {[chainId |-> chainId, blockNumber |-> blockNumber]}

\* an updateLastScannedBlock without the test for a negative block number
UpdateLastScannedBlockUnchecked(blocks, chainId, blockNumber, dbUp) ==
    IF ~dbUp THEN [blocks |-> blocks, res |-> DatabaseError]
    ELSE [blocks |-> UpdateOne(blocks, chainId, blockNumber), res |-> Ok]

\* an updateLastScannedBlock that returns without writing
UpdateLastScannedBlockNoWrite(blocks, chainId, blockNumber, dbUp) ==
    [blocks |-> blocks, res |-> Ok]

\* EventService.updateLastScannedBlock(chainId, blockNumber)
UpdateLastScannedBlock(blocks, chainId, blockNumber, dbUp) ==
    IF blockNumber < 0 THEN [blocks |-> blocks, res |-> ValidationError]
    ELSE IF ~dbUp THEN [blocks |-> blocks, res |-> DatabaseError]
    ELSE [blocks |-> UpdateOne(blocks, chainId, blockNumber), res |-> Ok]

(***************************************************************************)
(* State.                                                                  *)
(***************************************************************************)
VARIABLES
    events,        \* feeCollectedEvents collection (bag of documents)
    blocks,        \* lastScannedBlocks collection (set of documents)
    chunkSize,     \* config.chunkSize
    enabledChains, \* config.enabledChains: the list parseEnabledChains returned
    up,            \* the process is running
    runs,          \* how many more times the process may be started
    pc,            \* per task: where scanChain/scanBlocks stands
    toBlock,       \* per task: scanBlocks' toBlock (the head read)
    currentBlock,  \* per task: the loop variable of scanBlocks
    chunkEvents,   \* per task: what scanBlockRange returned
    call,          \* per task: the last call the task made and its result
    result,        \* per task: how scanChain settled
    everSkipped,   \* per task: some window was skipped after an error
    runFrom,       \* per task: the fromBlock the run's loop started at
    fetches,       \* per task: scanBlockRange calls made in the run
    prev,          \* per task: how the task of this list entry ended in the previous run
    allChains,     \* the promise scanAllChains returned: idle, pending, fulfilled, rejected
    ret            \* last direct EventService call and its result

vars == <<events, blocks, chunkSize, enabledChains, up, runs, pc, toBlock, currentBlock,
          chunkEvents, call, result, everSkipped, runFrom, fetches, prev, allChains, ret>>

scanVars == <<enabledChains, up, runs, pc, toBlock, currentBlock, chunkEvents,
              call, result, everSkipped, runFrom, fetches, prev, allChains>>

\* positions of config.enabledChains: scanAllChains maps each to one task
Slots == {1, 2}

\* the tasks scanAllChains starts, one per entry of the list
Tasks == DOMAIN enabledChains

\* the chainId the task of entry t was given
ChainOf(t) == enabledChains[t]

\* the lists of n entries parseEnabledChains returns
ChainLists(n) == [1..n -> Chains]

\* values of config.chunkSize: parseInt(CHUNK_SIZE) is taken as it comes, 0
\* included
ChunkSizes == 0..MaxChunk

NoCall == [op |-> "none", from |-> 0, to |-> 0, res |-> Ok, fault |-> "none"]
NoPrev == [outcome |-> "none", head |-> 0, storedEnd |-> NoRecord]
NoRet == [op |-> "none", chainId |-> 0, batch |-> << >>, blockNumber |-> 0,
          dbUp |-> TRUE, res |-> Ok]

\* an empty database and a process that was not started yet
InitWith(chains, starts) ==
    /\ events = EmptyBag
    /\ blocks = {}
    /\ chunkSize \in ChunkSizes
    /\ enabledChains = chains
    /\ up = FALSE
    /\ runs = starts
    /\ pc = [t \in Slots |-> "idle"]
    /\ toBlock = [t \in Slots |-> 0]
    /\ currentBlock = [t \in Slots |-> 0]
    /\ chunkEvents = [t \in Slots |-> << >>]
    /\ call = [t \in Slots |-> NoCall]
    /\ result = [t \in Slots |-> "none"]
    /\ everSkipped = [t \in Slots |-> FALSE]
    /\ runFrom = [t \in Slots |-> 0]
    /\ fetches = [t \in Slots |-> 0]
    /\ prev = [t \in Slots |-> NoPrev]
    /\ allChains = "idle"
    /\ ret = NoRet

\* one enabled chain, the process started up to MaxRuns times
Init == \E chains \in ChainLists(1) : InitWith(chains, MaxRuns)

\* two entries in ENABLED_CHAINS, the process started once
InitChains == \E chains \in ChainLists(2) : InitWith(chains, 1)

(***************************************************************************)
(* Errors: the class instanceof sees and the keyword its message carries.  *)
(***************************************************************************)
Err(class, msg) == [class |-> class, msg |-> msg]
NoErr == Err(Ok, "")

\* what a provider call can do: answer, answer with a log whose decoded
\* fields fail the schema, or fail with a message that holds one of the
\* keywords the services look for, or with any other message
ProviderFaults ==
    {"none", "malformed log", "rpc error", "network error", "timeout", "other"}

\* the faults in which the provider call throws
ProviderFailures == ProviderFaults \ {"none", "malformed log"}

\* the logs queryFilter returned, the first with a token that is no address
Malformed(logs) ==
    IF logs = << >> THEN logs
    ELSE [logs EXCEPT ![1].args.token = Str("token", AddressLen - 1)]

\* catch block of BlockchainService.loadFeeCollectorEvents
LoadCatch(e) ==
    IF e.msg = "rpc error" THEN Err(BlockchainError, "rpc error")
    ELSE IF e.msg = "network error" THEN Err(BlockchainError, "network error")
    ELSE IF e.msg = "timeout" THEN Err(BlockchainError, "timeout")
    ELSE e

\* a loadFeeCollectorEvents that leaves out the logs that fail the schema
LoadFeeCollectorEventsLenient(chainId, fromBlock, endBlock, fault) ==
    IF fromBlock > endBlock
    THEN [events |-> << >>, err |-> Err(ValidationError, "invalid block range"),
          queries |-> << >>]
    ELSE IF fault \in ProviderFailures
    THEN [events |-> << >>, err |-> LoadCatch(Err(PlainError, fault)),
          queries |-> << <<fromBlock, endBlock>> >>]
    ELSE LET logs == QueryFilter(chainId, fromBlock, endBlock)
             found == IF fault = "malformed log" THEN Malformed(logs) ELSE logs
         IN [events |-> SelectSeq(found, FeeCollectedEventSchema), err |-> NoErr,
             queries |-> << <<fromBlock, endBlock>> >>]

\* a loadFeeCollectorEvents without the test of the block range
LoadFeeCollectorEventsAnyRange(chainId, fromBlock, endBlock, fault) ==
    IF fault \in ProviderFailures
    THEN [events |-> << >>, err |-> LoadCatch(Err(PlainError, fault)),
          queries |-> << <<fromBlock, endBlock>> >>]
    ELSE LET logs == QueryFilter(chainId, fromBlock, endBlock)
             found == IF fault = "malformed log" THEN Malformed(logs) ELSE logs
         IN IF \E i \in DOMAIN found : ~FeeCollectedEventSchema(found[i])
            THEN [events |-> << >>,
                  err |-> LoadCatch(Err(BlockchainError, "invalid event data")),
                  queries |-> << <<fromBlock, endBlock>> >>]
            ELSE [events |-> found, err |-> NoErr,
                  queries |-> << <<fromBlock, endBlock>> >>]

\* BlockchainService.loadFeeCollectorEvents(chainId, fromBlock, toBlock):
\* the events returned, the error raised, and the queryFilter calls made
LoadFeeCollectorEvents(chainId, fromBlock, endBlock, fault) ==
    IF fromBlock > endBlock
    THEN [events |-> << >>, err |-> Err(ValidationError, "invalid block range"),
          queries |-> << >>]
    ELSE IF fault \in ProviderFailures
    THEN [events |-> << >>, err |-> LoadCatch(Err(PlainError, fault)),
          queries |-> << <<fromBlock, endBlock>> >>]
    ELSE LET logs == QueryFilter(chainId, fromBlock, endBlock)
             found == IF fault = "malformed log" THEN Malformed(logs) ELSE logs
         IN IF \E i \in DOMAIN found : ~FeeCollectedEventSchema(found[i])
            THEN [events |-> << >>,
                  err |-> LoadCatch(Err(BlockchainError, "invalid event data")),
                  queries |-> << <<fromBlock, endBlock>> >>]
            ELSE [events |-> found, err |-> NoErr,
                  queries |-> << <<fromBlock, endBlock>> >>]

\* catch block of ScannerService.scanBlockRange
ScanBlockRangeCatch(e) ==
    IF e.msg \in {"rpc error", "network error", "timeout"}
    THEN Err(BlockchainError, e.msg)
    ELSE e

\* ScannerService.scanBlockRange(chainId, fromBlock, toBlock)
ScanBlockRange(chainId, fromBlock, endBlock, fault) ==
    LET r == LoadFeeCollectorEvents(chainId, fromBlock, endBlock, fault)
    IN IF r.err = NoErr THEN r
       ELSE [events |-> << >>, err |-> ScanBlockRangeCatch(r.err),
             queries |-> r.queries]

\* a chunk catch block that rethrows whatever it caught
ChunkCatchRethrowAll(e) == "throw"

\* catch block of the chunk loop in scanBlocks: rethrow or continue
ChunkCatch(e) ==
    IF e.class = BlockchainError \/ e.class = DatabaseError
    THEN "throw" ELSE "continue"

\* an outer catch block without the instanceof DatabaseError branch
ScanBlocksCatchNoDb(e) ==
    IF e.class = BlockchainError THEN e
    ELSE IF e.msg = "blockchain error" THEN Err(BlockchainError, "blockchain error")
    ELSE IF e.msg = "database error" THEN Err(DatabaseError, "database error")
    ELSE IF e.msg = "event service error"
         THEN Err(BlockchainError, "event service error")
    ELSE Err(BlockchainError, "failed to complete scanning process")

\* outer catch block of scanBlocks: the error scanBlocks rejects with
ScanBlocksCatch(e) ==
    IF e.class = BlockchainError THEN e
    ELSE IF e.class = DatabaseError THEN e
    ELSE IF e.msg = "blockchain error" THEN Err(BlockchainError, "blockchain error")
    ELSE IF e.msg = "database error" THEN Err(DatabaseError, "database error")
    ELSE IF e.msg = "event service error"
         THEN Err(BlockchainError, "event service error")
    ELSE Err(BlockchainError, "failed to complete scanning process")

\* chunkEndBlock = Math.min(currentBlock + this.chunkSize - 1, toBlock)
ChunkEndBlock(cur, size, to) == Min(cur + size - 1, to)

\* a loop test that lets currentBlock = toBlock through
LoopTestInclusive(cur, to) == cur <= to

\* loop test of scanBlocks: currentBlock < toBlock
LoopTest(cur, to) == cur < to

\* a fromBlock one past the block that was read
ScanBlocksFromAfter(given, stored) == (IF given # 0 THEN given ELSE stored) + 1

\* fromBlock of scanBlocks: _fromBlock ? _fromBlock : getLastScannedBlock()
ScanBlocksFrom(given, stored) == IF given # 0 THEN given ELSE stored

\* toBlock of scanBlocks: _toBlock ? _toBlock : latestBlock
ScanBlocksTo(given, latestBlock) == IF given # 0 THEN given ELSE latestBlock

\* an up-to-date test that lets fromBlock = latestBlock through
UpToDateStrict(fromBlock, latestBlock) == fromBlock > latestBlock

\* scanChain's test for "chain is up to date"
UpToDate(fromBlock, latestBlock) == fromBlock >= latestBlock

(***************************************************************************)
(* The process.                                                            *)
(***************************************************************************)
\* index.ts startScanner -> scanAllChains: one scanChain task per entry of
\* config.enabledChains
Start ==
    /\ ~up
    /\ runs > 0
    /\ up' = TRUE
    /\ runs' = runs - 1
    /\ pc' = [t \in Slots |-> IF t \in Tasks THEN "scanChain" ELSE "idle"]
    /\ allChains' = "pending"
    /\ UNCHANGED <<events, blocks, chunkSize, enabledChains, toBlock, currentBlock,
                   chunkEvents, call, result, everSkipped, runFrom, fetches, prev, ret>>

\* how a task stood when the process went away
Outcome(t) ==
    IF pc[t] = "done" THEN "done"
    ELSE IF pc[t] = "failed" THEN "failed"
    ELSE IF pc[t] = "rejected" THEN "rejected"
    ELSE "crashed"

\* the process exits or is killed (SIGINT/SIGTERM handler: process.exit)
Stop ==
    /\ up
    /\ up' = FALSE
    /\ prev' = [t \in Slots |->
                  [outcome |-> Outcome(t),
                   head |-> toBlock[t],
                   storedEnd |-> IF pc[t] = "update"
                                 THEN ChunkEndBlock(currentBlock[t], chunkSize, toBlock[t])
                                 ELSE NoRecord]]
    /\ pc' = [t \in Slots |-> "idle"]
    /\ toBlock' = [t \in Slots |-> 0]
    /\ currentBlock' = [t \in Slots |-> 0]
    /\ chunkEvents' = [t \in Slots |-> << >>]
    /\ call' = [t \in Slots |-> NoCall]
    /\ result' = [t \in Slots |-> "none"]
    /\ allChains' = "idle"
    /\ runFrom' = [t \in Slots |-> 0]
    /\ fetches' = [t \in Slots |-> 0]
    /\ UNCHANGED <<events, blocks, chunkSize, enabledChains, runs, everSkipped, ret>>

(***************************************************************************)
(* One chain task.                                                         *)
(***************************************************************************)
\* the loop increment currentBlock += chunkSize, the loop test, and, when
\* the loop is over, the rest of scanBlocks and scanChain
NextChunk(t) ==
    LET next == currentBlock[t] + chunkSize
    IN /\ currentBlock' = [currentBlock EXCEPT ![t] = next]
       /\ pc' = [pc EXCEPT ![t] = IF LoopTest(next, toBlock[t]) THEN "fetch" ELSE "done"]
       /\ result' = [result EXCEPT ![t] = IF LoopTest(next, toBlock[t]) THEN "none" ELSE Ok]

\* an error e raised inside the try block of the chunk loop
Raise(t, e) ==
    IF ChunkCatch(e) = "throw"
    THEN /\ pc' = [pc EXCEPT ![t] = "failed"]
         /\ result' = [result EXCEPT ![t] = ScanBlocksCatch(e).class]
         /\ UNCHANGED <<currentBlock, everSkipped>>
    ELSE /\ NextChunk(t)
         /\ everSkipped' = [everSkipped EXCEPT ![t] = TRUE]

\* scanChain up to the first chunk: getLastScannedBlock, getLatestBlock,
\* the up-to-date test, and the head of scanBlocks
ScanChain(t) ==
    /\ up
    /\ pc[t] = "scanChain"
    /\ \E latestBlock \in 0..MaxHead,
          failing \in {"none", "getLastScannedBlock", "getLatestBlock",
                       "scanBlocks.getLatestBlock"} :
         LET fromBlock == GetLastScannedBlock(blocks, ChainOf(t))
         IN /\ toBlock' = [toBlock EXCEPT ![t] = latestBlock]
            /\ IF failing = "getLastScannedBlock"
               THEN /\ pc' = [pc EXCEPT ![t] = "rejected"]
                    /\ result' = [result EXCEPT ![t] = DatabaseError]
                    /\ call' = [call EXCEPT ![t] =
                                  [op |-> "getLastScannedBlock", from |-> 0,
                                   to |-> 0, res |-> DatabaseError, fault |-> "none"]]
                    /\ UNCHANGED currentBlock
               ELSE IF failing = "getLatestBlock"
               THEN /\ pc' = [pc EXCEPT ![t] = "rejected"]
                    /\ result' = [result EXCEPT ![t] = PlainError]
                    /\ call' = [call EXCEPT ![t] =
                                  [op |-> "getLatestBlock", from |-> 0,
                                   to |-> 0, res |-> PlainError, fault |-> "other"]]
                    /\ UNCHANGED currentBlock
               ELSE IF UpToDate(fromBlock, latestBlock)
               THEN /\ pc' = [pc EXCEPT ![t] = "done"]
                    /\ result' = [result EXCEPT ![t] = Ok]
                    /\ call' = [call EXCEPT ![t] =
                                  [op |-> "getLatestBlock", from |-> 0,
                                   to |-> 0, res |-> Ok, fault |-> "none"]]
                    /\ UNCHANGED currentBlock
               ELSE IF failing = "scanBlocks.getLatestBlock"
               THEN /\ pc' = [pc EXCEPT ![t] = "rejected"]
                    /\ result' = [result EXCEPT ![t] =
                          ScanBlocksCatch(Err(BlockchainError, "failed to get latest block")).class]
                    /\ call' = [call EXCEPT ![t] =
                                  [op |-> "getLatestBlock", from |-> 0,
                                   to |-> 0, res |-> BlockchainError, fault |-> "other"]]
                    /\ UNCHANGED currentBlock
               ELSE /\ currentBlock' = [currentBlock EXCEPT ![t] =
                          ScanBlocksFrom(fromBlock, GetLastScannedBlock(blocks, ChainOf(t)))]
                    /\ pc' = [pc EXCEPT ![t] = "fetch"]
                    /\ result' = [result EXCEPT ![t] = "none"]
                    /\ call' = [call EXCEPT ![t] =
                                  [op |-> "getLatestBlock", from |-> 0,
                                   to |-> 0, res |-> Ok, fault |-> "none"]]
    /\ runFrom' = [runFrom EXCEPT ![t] = currentBlock'[t]]
    /\ UNCHANGED <<events, blocks, chunkSize, enabledChains, up, runs, chunkEvents,
                   everSkipped, fetches, prev, allChains, ret>>

\* a scanBlockRange issued without awaiting the store and the progress
\* update of the window
FetchNotAwaited(t) ==
    /\ up
    /\ pc[t] \in {"fetch", "store", "update"}
    /\ \E fault \in ProviderFaults :
         LET chunkEndBlock == ChunkEndBlock(currentBlock[t], chunkSize, toBlock[t])
             r == ScanBlockRange(ChainOf(t), currentBlock[t], chunkEndBlock, fault)
         IN /\ call' = [call EXCEPT ![t] =
                          [op |-> "scanBlockRange", from |-> currentBlock[t],
                           to |-> chunkEndBlock, res |-> r.err.class,
                           fault |-> fault]]
            /\ IF r.err = NoErr
               THEN /\ chunkEvents' = [chunkEvents EXCEPT ![t] = r.events]
                    /\ pc' = [pc EXCEPT ![t] = "store"]
                    /\ UNCHANGED <<currentBlock, result, everSkipped>>
               ELSE /\ Raise(t, r.err)
                    /\ UNCHANGED chunkEvents
    /\ fetches' = [fetches EXCEPT ![t] = Min(fetches[t] + 1, MaxHead + 1)]
    /\ UNCHANGED <<events, blocks, chunkSize, enabledChains, up, runs, toBlock, runFrom,
                   prev, allChains, ret>>

\* first statement of the try block: scanBlockRange(currentBlock, chunkEndBlock)
Fetch(t) ==
    /\ up
    /\ pc[t] = "fetch"
    /\ \E fault \in ProviderFaults :
         LET chunkEndBlock == ChunkEndBlock(currentBlock[t], chunkSize, toBlock[t])
             r == ScanBlockRange(ChainOf(t), currentBlock[t], chunkEndBlock, fault)
         IN /\ call' = [call EXCEPT ![t] =
                          [op |-> "scanBlockRange", from |-> currentBlock[t],
                           to |-> chunkEndBlock, res |-> r.err.class,
                           fault |-> fault]]
            /\ IF r.err = NoErr
               THEN /\ chunkEvents' = [chunkEvents EXCEPT ![t] = r.events]
                    /\ pc' = [pc EXCEPT ![t] = "store"]
                    /\ UNCHANGED <<currentBlock, result, everSkipped>>
               ELSE /\ Raise(t, r.err)
                    /\ UNCHANGED chunkEvents
    /\ fetches' = [fetches EXCEPT ![t] = Min(fetches[t] + 1, MaxHead + 1)]
    /\ UNCHANGED <<events, blocks, chunkSize, enabledChains, up, runs, toBlock, runFrom,
                   prev, allChains, ret>>

\* storeEvents awaited outside the try block: its failure is not noticed
StoreUnchecked(t) ==
    /\ up
    /\ pc[t] = "store"
    /\ \E dbUp \in BOOLEAN :
         LET chunkEndBlock == ChunkEndBlock(currentBlock[t], chunkSize, toBlock[t])
             r == StoreEvents(events, chunkEvents[t], ChainOf(t), dbUp)
         IN /\ events' = r.coll
            /\ call' = [call EXCEPT ![t] =
                          [op |-> "storeEvents", from |-> currentBlock[t],
                           to |-> chunkEndBlock, res |-> r.res, fault |-> "none"]]
            /\ pc' = [pc EXCEPT ![t] = "update"]
            /\ UNCHANGED <<currentBlock, result, everSkipped>>
    /\ UNCHANGED <<blocks, chunkSize, enabledChains, up, runs, toBlock, chunkEvents,
                   runFrom, fetches, prev, allChains, ret>>

\* second statement: eventService.storeEvents(chunkEvents, chainId)
Store(t) ==
    /\ up
    /\ pc[t] = "store"
    /\ \E dbUp \in BOOLEAN :
         LET chunkEndBlock == ChunkEndBlock(currentBlock[t], chunkSize, toBlock[t])
             r == StoreEvents(events, chunkEvents[t], ChainOf(t), dbUp)
         IN /\ events' = r.coll
            /\ call' = [call EXCEPT ![t] =
                          [op |-> "storeEvents", from |-> currentBlock[t],
                           to |-> chunkEndBlock, res |-> r.res, fault |-> "none"]]
            /\ IF r.res = Ok
               THEN /\ pc' = [pc EXCEPT ![t] = "update"]
                    /\ UNCHANGED <<currentBlock, result, everSkipped>>
               ELSE Raise(t, Err(r.res, "failed to store events in database"))
    /\ UNCHANGED <<blocks, chunkSize, enabledChains, up, runs, toBlock, chunkEvents,
                   runFrom, fetches, prev, allChains, ret>>

\* third statement: eventService.updateLastScannedBlock(chainId, chunkEndBlock)
Update(t) ==
    /\ up
    /\ pc[t] = "update"
    /\ \E dbUp \in BOOLEAN :
         LET chunkEndBlock == ChunkEndBlock(currentBlock[t], chunkSize, toBlock[t])
             r == UpdateLastScannedBlock(blocks, ChainOf(t), chunkEndBlock, dbUp)
         IN /\ blocks' = r.blocks
            /\ call' = [call EXCEPT ![t] =
                          [op |-> "updateLastScannedBlock", from |-> currentBlock[t],
                           to |-> chunkEndBlock, res |-> r.res, fault |-> "none"]]
            /\ IF r.res = Ok
               THEN /\ NextChunk(t)
                    /\ UNCHANGED everSkipped
               ELSE Raise(t, Err(r.res, "failed to update last scanned block"))
    /\ UNCHANGED <<events, chunkSize, enabledChains, up, runs, toBlock, chunkEvents,
                   runFrom, fetches, prev, allChains, ret>>

\* a scanChain promise that rejects is passed on: no catch around it
TaskPromiseRethrow(p) ==
    IF p = "done" THEN "fulfilled"
    ELSE IF p \in {"failed", "rejected"} THEN "rejected"
    ELSE "pending"

\* the async callback scanAllChains maps over the list: await scanChain in
\* a try whose catch logs the error and does not throw
TaskPromise(p) ==
    IF p \in {"done", "failed", "rejected"} THEN "fulfilled" ELSE "pending"

\* Promise.all: rejected as soon as one promise is, fulfilled when all are
PromiseAll(ps) ==
    IF \E t \in DOMAIN ps : ps[t] = "rejected" THEN "rejected"
    ELSE IF \A t \in DOMAIN ps : ps[t] = "fulfilled" THEN "fulfilled"
    ELSE "pending"

\* await Promise.all(...) in scanAllChains settles
ScanAllChainsSettle ==
    /\ up
    /\ allChains = "pending"
    /\ PromiseAll([t \in Tasks |-> TaskPromise(pc[t])]) # "pending"
    /\ allChains' = PromiseAll([t \in Tasks |-> TaskPromise(pc[t])])
    /\ UNCHANGED <<events, blocks, chunkSize, enabledChains, up, runs, pc, toBlock,
                   currentBlock, chunkEvents, call, result, everSkipped, runFrom,
                   fetches, prev, ret>>

Next ==
    \/ Start
    \/ Stop
    \/ ScanAllChainsSettle
    \/ \E t \in Slots : ScanChain(t)
    \/ \E t \in Slots : Fetch(t)
    \/ \E t \in Slots : Store(t)
    \/ \E t \in Slots : Update(t)

Spec == Init /\ [][Next]_vars

SpecChains == InitChains /\ [][Next]_vars

(***************************************************************************)
(* EventService called directly, in any order, on any chain.               *)
(***************************************************************************)
\* events a caller may pass: two with one identity and different fees, one
\* of the same transaction with another log index, and one with the first
\* identity whose integratorFee is not a number string
StoreUniverse ==
    {Log(1, "0xa1", 0, "alice", Fee10), Log(1, "0xa1", 0, "alice", Fee99),
     Log(1, "0xa1", 1, "bob", Fee20),
     [Log(1, "0xa1", 0, "alice", Fee10) EXCEPT
         !.args.integratorFee = <<"i", "n", "v", "a", "l", "i", "d">>]}

RECURSIVE SeqsUpTo(_, _)
SeqsUpTo(S, n) ==
    IF n = 0 THEN {<< >>}
    ELSE LET shorter == SeqsUpTo(S, n - 1)
         IN shorter \cup {Append(q, x) : q \in shorter, x \in S}

Batches == SeqsUpTo(StoreUniverse, MaxBatch)

\* no scanner task: config.enabledChains plays no part
InitStore == InitWith(<< >>, 0)

\* a caller awaits eventService.storeEvents(batch, chainId)
StoreEventsCall ==
    \E c \in Chains, batch \in Batches, dbUp \in BOOLEAN :
        LET r == StoreEvents(events, batch, c, dbUp)
        IN /\ events' = r.coll
           /\ ret' = [op |-> "storeEvents", chainId |-> c, batch |-> batch,
                      blockNumber |-> 0, dbUp |-> dbUp, res |-> r.res]
           /\ UNCHANGED <<blocks, chunkSize>>
           /\ UNCHANGED scanVars

NextStore == StoreEventsCall

SpecStore == InitStore /\ [][NextStore]_vars

(***************************************************************************)
(* The progress methods of EventService and the chain client called        *)
(* directly, in any order, for any chain id.                               *)
(***************************************************************************)
\* chain ids a caller may pass: the configured ones and 0, an id for which
\* config.chains has no entry
CallerChainIds == Chains \cup {0}

\* block numbers a caller may pass
CallerBlocks == -1 .. MaxHead

\* a caller awaits eventService.getLastScannedBlock(chainId)
GetLastScannedBlockCall ==
    \E c \in CallerChainIds, dbUp \in BOOLEAN :
        /\ ret' = [op |-> "getLastScannedBlock", chainId |-> c, dbUp |-> dbUp,
                   res |-> IF dbUp THEN Ok ELSE DatabaseError,
                   value |-> IF dbUp THEN GetLastScannedBlock(blocks, c) ELSE NoRecord]
        /\ UNCHANGED <<events, blocks, chunkSize>>
        /\ UNCHANGED scanVars

\* a caller awaits eventService.updateLastScannedBlock(chainId, blockNumber)
UpdateLastScannedBlockCall ==
    \E c \in CallerChainIds, n \in CallerBlocks, dbUp \in BOOLEAN :
        LET r == UpdateLastScannedBlock(blocks, c, n, dbUp)
        IN /\ blocks' = r.blocks
           /\ ret' = [op |-> "updateLastScannedBlock", chainId |-> c,
                      blockNumber |-> n, dbUp |-> dbUp, res |-> r.res]
           /\ UNCHANGED <<events, chunkSize>>
           /\ UNCHANGED scanVars

\* a caller awaits blockchainService.loadFeeCollectorEvents(chainId,
\* fromBlock, toBlock)
LoadFeeCollectorEventsCall ==
    \E c \in Chains, fromBlock \in 0 .. MaxHead, endBlock \in 0 .. MaxHead,
       fault \in ProviderFaults :
        LET r == LoadFeeCollectorEvents(c, fromBlock, endBlock, fault)
        IN /\ ret' = [op |-> "loadFeeCollectorEvents", chainId |-> c,
                      from |-> fromBlock, to |-> endBlock, fault |-> fault,
                      res |-> r.err.class, events |-> r.events,
                      queries |-> r.queries]
           /\ UNCHANGED <<events, blocks, chunkSize>>
           /\ UNCHANGED scanVars

NextClient == LoadFeeCollectorEventsCall

SpecClient == InitStore /\ [][NextClient]_vars

NextCalls ==
    \/ GetLastScannedBlockCall
    \/ UpdateLastScannedBlockCall

SpecCalls == InitStore /\ [][NextCalls]_vars

(***************************************************************************)
(* Configuration: the ENABLED_CHAINS setting.                              *)
(***************************************************************************)
\* the values of enum ChainIds
ChainIds == {1, 137, 8453, 56, 10, 100}

\* ChainIds.POLYGON
POLYGON == 137

\* the characters ENABLED_CHAINS is written with: digits, the separator, a
\* blank and a letter
SettingChars == {"0", "1", "3", "7", ",", " ", "x"}

\* process.env.ENABLED_CHAINS: undefined, or a text
Settings ==
    {[defined |-> FALSE, text |-> << >>]}
       \cup {[defined |-> TRUE, text |-> s] :
                 s \in UNION {[1 .. n -> SettingChars] : n \in 0 .. MaxSetting}}

\* String.prototype.split(","): the pieces between the commas, cur the
\* piece being read
RECURSIVE Split(_, _)
Split(s, cur) ==
    IF s = << >> THEN <<cur>>
    ELSE IF Head(s) = "," THEN <<cur>> \o Split(Tail(s), << >>)
    ELSE Split(Tail(s), Append(cur, Head(s)))

RECURSIVE TrimStart(_)
TrimStart(s) == IF s # << >> /\ Head(s) = " " THEN TrimStart(Tail(s)) ELSE s

RECURSIVE TrimEnd(_)
TrimEnd(s) ==
    IF s # << >> /\ s[Len(s)] = " " THEN TrimEnd(SubSeq(s, 1, Len(s) - 1)) ELSE s

\* String.prototype.trim()
Trim(s) == TrimEnd(TrimStart(s))

\* the longest prefix of s made of digits
RECURSIVE DigitPrefix(_)
DigitPrefix(s) ==
    IF s # << >> /\ Head(s) \in Range(DigitChars)
    THEN <<Head(s)>> \o DigitPrefix(Tail(s))
    ELSE << >>

\* the number a string of digits denotes
RECURSIVE NumeralValue(_)
NumeralValue(s) ==
    IF s = << >> THEN 0
    ELSE 10 * NumeralValue(SubSeq(s, 1, Len(s) - 1)) + DigitValue(s[Len(s)])

\* parseInt(s, 10): leading blanks are skipped, the digits that follow are
\* read and whatever comes after them is ignored; NaN when no digit follows
\* (no sign is among the characters of the model)
ParseInt(s) ==
    LET digits == DigitPrefix(TrimStart(s))
    IN IF digits = << >> THEN [isNaN |-> TRUE, value |-> 0]
       ELSE [isNaN |-> FALSE, value |-> NumeralValue(digits)]

\* parseEnabledChains(): the chain ids of the setting, or the Error thrown
ParseEnabledChains(env) ==
    IF ~env.defined \/ env.text = << >>
    THEN [res |-> Ok, chains |-> <<POLYGON>>]
    ELSE LET ids == Split(env.text, << >>)
             chainIds == [k \in DOMAIN ids |-> ParseInt(Trim(ids[k]))]
         IN IF \E k \in DOMAIN ids :
                  chainIds[k].isNaN \/ chainIds[k].value \notin ChainIds
            THEN [res |-> PlainError, chains |-> << >>]
            ELSE IF Len(chainIds) = 0
            THEN [res |-> Ok, chains |-> <<POLYGON>>]
            ELSE [res |-> Ok, chains |-> [k \in DOMAIN ids |-> chainIds[k].value]]

\* the configuration module is loaded, once, with some ENABLED_CHAINS
ParseEnabledChainsCall ==
    /\ ret.op = "none"
    /\ \E env \in Settings :
         LET r == ParseEnabledChains(env)
         IN /\ ret' = [op |-> "parseEnabledChains", setting |-> env,
                       res |-> r.res, chains |-> r.chains]
            /\ UNCHANGED <<events, blocks, chunkSize>>
            /\ UNCHANGED scanVars

NextConfig == ParseEnabledChainsCall

SpecConfig == InitStore /\ [][NextConfig]_vars

(***************************************************************************)
(* The read API: GET /events/integrator/:chainId/:integrator.              *)
(***************************************************************************)
\* a find that filters on the integrator only
FindByIntegratorAnyChain(coll, chainId, integrator) ==
    LET found == {x \in Docs(coll) : x.integrator = integrator}
    IN [d \in found |-> CopiesIn(d, coll)]

\* FeeCollectedEventModel.find({ chainId, integrator }).lean(): the documents
\* that match, in no particular order
FindByIntegrator(coll, chainId, integrator) ==
    LET found == {x \in Docs(coll) : x.chainId = chainId /\ x.integrator = integrator}
    IN [d \in found |-> CopiesIn(d, coll)]

\* EventService.getEventsByIntegrator(chainId, integrator)
GetEventsByIntegrator(coll, chainId, integrator, dbUp) ==
    IF ~dbUp THEN [res |-> DatabaseError, events |-> EmptyBag]
    ELSE [res |-> Ok, events |-> FindByIntegrator(coll, chainId, integrator)]

\* IntegratorParamSchema: a string of 42 characters (the addresses of the
\* model are taken to match the hex pattern)
IntegratorParamSchema(params) == params.integrator.len = AddressLen

\* the controller getEventsByIntegrator and the error handler behind it:
\* the status and, for 200, data.events and meta.count
GetEventsByIntegratorHandler(coll, params, dbUp) ==
    LET chainId == ParseInt(params.chainId)
        r == GetEventsByIntegrator(coll, chainId.value, params.integrator, dbUp)
    IN IF ~IntegratorParamSchema(params) THEN [status |-> 400]
       ELSE IF chainId.isNaN \/ chainId.value \notin ChainIds THEN [status |-> 400]
       ELSE IF r.res # Ok THEN [status |-> 500]
       ELSE [status |-> 200, events |-> r.events, count |-> BagCardinality(r.events)]

\* the integrators a caller asks for, one of them not an address
CallerIntegrators == {Addr("alice"), Addr("bob"), Addr("carol"), Str("al", 2)}

\* the :chainId segment of a request
RequestChainIds == {<<"1">>, <<"1", "3", "7">>, <<"1", "0">>, <<"7">>, <<"x">>}

\* a caller awaits eventService.getEventsByIntegrator(c, integrator)
GetEventsByIntegratorCall ==
    \E c \in CallerChainIds, integrator \in CallerIntegrators, dbUp \in BOOLEAN :
        LET r == GetEventsByIntegrator(events, c, integrator, dbUp)
        IN /\ ret' = [op |-> "getEventsByIntegrator", chainId |-> c,
                      integrator |-> integrator, dbUp |-> dbUp,
                      res |-> r.res, events |-> r.events]
           /\ UNCHANGED <<events, blocks, chunkSize>>
           /\ UNCHANGED scanVars

\* a client sends GET /events/integrator/:chainId/:integrator
GetEventsByIntegratorRequest ==
    \E chainId \in RequestChainIds, integrator \in CallerIntegrators,
       dbUp \in BOOLEAN :
        LET params == [chainId |-> chainId, integrator |-> integrator]
        IN /\ ret' = [op |-> "GET /events/integrator", params |-> params,
                      dbUp |-> dbUp,
                      response |-> GetEventsByIntegratorHandler(events, params, dbUp)]
           /\ UNCHANGED <<events, blocks, chunkSize>>
           /\ UNCHANGED scanVars

NextApi ==
    \/ StoreEventsCall
    \/ GetEventsByIntegratorCall
    \/ GetEventsByIntegratorRequest

SpecApi == InitStore /\ [][NextApi]_vars

(***************************************************************************)
(* The collection itself: FeeCollectedEventModel.create(document).         *)
(***************************************************************************)
\* the E11000 write error of the unique index
DuplicateKeyError == "duplicate key error"

\* FeeCollectedEventModel.create(doc): one insert under the unique index
Create(coll, doc) ==
    LET r == InsertMany(coll, <<doc>>)
    IN [coll |-> r.coll, res |-> IF r.dup THEN DuplicateKeyError ELSE Ok]

\* documents a caller creates: two chains, two blocks, two transactions,
\* two log indexes
CreateUniverse ==
    {ToDTO(Log(b, h, i, "alice", Fee10), c) :
        b \in {1, 2}, h \in {"0xa1", "0xb2"}, i \in {0, 1}, c \in Chains}

\* a caller awaits FeeCollectedEventModel.create(doc)
CreateCall ==
    \E doc \in CreateUniverse :
        LET r == Create(events, doc)
        IN /\ events' = r.coll
           /\ ret' = [op |-> "create", doc |-> doc, res |-> r.res]
           /\ UNCHANGED <<blocks, chunkSize>>
           /\ UNCHANGED scanVars

NextModel == CreateCall

SpecModel == InitStore /\ [][NextModel]_vars

(***************************************************************************)
(* scanBlocks called with explicit bounds, as the end-to-end test does.    *)
(***************************************************************************)
\* a caller awaits scannerService.scanBlocks(c, from, to) for the chain of
\* task t, up to MaxRuns times and never while an earlier call is under
\* way: getLatestBlock, the choice of fromBlock and toBlock and the first
\* loop test
ScanBlocksCall(t) ==
    /\ runs > 0
    /\ pc[t] \in {"idle", "done", "failed", "rejected"}
    /\ \E from \in 0 .. MaxHead, to \in 0 .. MaxHead, latestBlock \in 0 .. MaxHead,
          failing \in {"none", "getLatestBlock", "getLastScannedBlock"} :
         LET fromBlock == ScanBlocksFrom(from, GetLastScannedBlock(blocks, ChainOf(t)))
             endBlock == ScanBlocksTo(to, latestBlock)
             res == IF failing = "getLatestBlock"
                    THEN ScanBlocksCatch(Err(BlockchainError,
                                             "failed to get latest block")).class
                    ELSE IF failing = "getLastScannedBlock" /\ from = 0
                    THEN ScanBlocksCatch(Err(DatabaseError,
                                             "failed to get last scanned block")).class
                    ELSE Ok
         IN /\ ret' = [op |-> "scanBlocks", chainId |-> ChainOf(t), from |-> from,
                       to |-> to, res |-> res]
            /\ IF res # Ok
               THEN /\ pc' = [pc EXCEPT ![t] = "rejected"]
                    /\ result' = [result EXCEPT ![t] = res]
                    /\ UNCHANGED <<currentBlock, toBlock, runFrom>>
               ELSE /\ currentBlock' = [currentBlock EXCEPT ![t] = fromBlock]
                    /\ runFrom' = [runFrom EXCEPT ![t] = fromBlock]
                    /\ toBlock' = [toBlock EXCEPT ![t] = endBlock]
                    /\ pc' = [pc EXCEPT ![t] =
                                IF LoopTest(fromBlock, endBlock) THEN "fetch" ELSE "done"]
                    /\ result' = [result EXCEPT ![t] =
                                    IF LoopTest(fromBlock, endBlock) THEN "none" ELSE Ok]
    /\ up' = TRUE
    /\ runs' = runs - 1
    /\ call' = [call EXCEPT ![t] = NoCall]
    /\ chunkEvents' = [chunkEvents EXCEPT ![t] = << >>]
    /\ fetches' = [fetches EXCEPT ![t] = 0]
    /\ UNCHANGED <<events, blocks, chunkSize, enabledChains, everSkipped, prev,
                   allChains>>

\* one chain, no scanAllChains: the calls come from outside
InitScan == \E chains \in ChainLists(1) : InitWith(chains, MaxRuns)

NextScan ==
    \E t \in Tasks :
       \/ ScanBlocksCall(t)
       \/ Fetch(t)
       \/ Store(t)
       \/ Update(t)

SpecScan == InitScan /\ [][NextScan]_vars

(***************************************************************************)
(* Properties.                                                             *)
(***************************************************************************)
WindowPcs == {"fetch", "store", "update"}

\* some stored document has the identity of event e of chain c
Stored(c, e) == \E d \in Docs(events) : Key(d) = Key(ToDTO(e, c))

\* every log of chain c between its start block and block n is stored
AllStoredUpTo(c, n) ==
    \A i \in DOMAIN ChainLogs(c) :
        (StartBlock(c) <= ChainLogs(c)[i].blockNumber /\ ChainLogs(c)[i].blockNumber <= n)
            => Stored(c, ChainLogs(c)[i])

\* C1: whenever chain c has a Progress record with value p, every
\* FeesCollected log the provider holds for c at a block between the start
\* block of c and p is in the event store, whatever errors the runs met.
C1_ProgressCoversStoredEvents ==
    \A c \in Chains :
        Progress(blocks, c) # NoRecord => AllStoredUpTo(c, Progress(blocks, c))

\* C2: no two stored events have the same (chainId, transactionHash,
\* logIndex), whatever storeEvents calls (repeated, overlapping, with an
\* identity twice in one batch, for any chain) were made.
C2_IdentityUnique ==
    /\ \A d \in Docs(events) : CopiesIn(d, events) = 1
    /\ \A d1, d2 \in Docs(events) : Key(d1) = Key(d2) => d1 = d2

\* a batch that holds one identity twice was offered and that identity is
\* stored
C2_Witness ==
    /\ ret.op = "storeEvents"
    /\ Len(ret.batch) = 2
    /\ Key(ToDTO(ret.batch[1], ret.chainId)) = Key(ToDTO(ret.batch[2], ret.chainId))
    /\ Stored(ret.chainId, ret.batch[1])

\* C3: a task invokes updateLastScannedBlock(c, windowEnd) only right after
\* its scanBlockRange and then its storeEvents of that same window both
\* returned without error, and a chain's Progress only changes by such a
\* call of one of the chain's tasks, to that windowEnd.
C3_UpdateAfterFetchAndStore ==
    [][/\ \A t \in Tasks :
            /\ (call'[t] # call[t] /\ call'[t].op = "updateLastScannedBlock")
                  => /\ call[t].op = "storeEvents"
                     /\ call[t].res = Ok
                     /\ call[t].from = call'[t].from
                     /\ call[t].to = call'[t].to
            /\ (call'[t] # call[t] /\ call'[t].op = "storeEvents")
                  => /\ call[t].op = "scanBlockRange"
                     /\ call[t].res = Ok
                     /\ call[t].from = call'[t].from
                     /\ call[t].to = call'[t].to
       /\ \A c \in Chains :
            Progress(blocks', c) # Progress(blocks, c)
               => \E t \in Tasks :
                     /\ ChainOf(t) = c
                     /\ call'[t] # call[t]
                     /\ call'[t].op = "updateLastScannedBlock"
                     /\ call'[t].res = Ok
                     /\ Progress(blocks', c) = call'[t].to
      ]_vars

\* a window whose fetch, store and progress update all succeeded
C3_Witness ==
    \E t \in Tasks :
        /\ call[t].op = "updateLastScannedBlock"
        /\ call[t].res = Ok
        /\ Progress(blocks, ChainOf(t)) = call[t].to

\* C4: if the process stops after storeEvents of a window and before its
\* updateLastScannedBlock, the next run of the chain (no window skipped, the
\* head not lower than before) ends with Progress at or past the window's
\* end.
C4_CrashedWindowRedone ==
    \A t \in Tasks :
        ( /\ pc[t] = "done"
          /\ prev[t].storedEnd # NoRecord
          /\ ~everSkipped[t]
          /\ toBlock[t] >= prev[t].head )
        => Progress(blocks, ChainOf(t)) >= prev[t].storedEnd

\* C5: a second run of a chain after a completed run, with the same chain
\* head and the same provider logs, changes neither the stored events nor
\* the chain's Progress.
C5_SecondRunChangesNothing ==
    [][\A t \in Tasks :
        ( /\ prev[t].outcome = "done"
          /\ ~everSkipped[t]
          /\ pc[t] \in WindowPcs
          /\ toBlock[t] = prev[t].head )
        => /\ events' = events
           /\ Progress(blocks', ChainOf(t)) = Progress(blocks, ChainOf(t))
      ]_vars

\* C6: after storeEvents(batch, c) returns without error the collection is
\* the previous one plus exactly the batch events whose identity was not
\* stored before; stored records keep their field values.
C6_StoreAddsExactlyNew ==
    [][(ret'.op = "storeEvents" /\ ret'.res = Ok)
        => events' = events (+) SetToBag(
              {ToDTO(ret'.batch[i], ret'.chainId) :
                  i \in {j \in DOMAIN ret'.batch :
                           \A d \in Docs(events) :
                              Key(d) # Key(ToDTO(ret'.batch[j], ret'.chainId))}})
      ]_vars

\* a successful call whose batch held an identity that was already stored
\* with other field values, and an identity that is stored as offered
C6_Witness ==
    /\ ret.op = "storeEvents"
    /\ ret.res = Ok
    /\ \E i, j \in DOMAIN ret.batch :
          /\ Stored(ret.chainId, ret.batch[i])
          /\ ToDTO(ret.batch[i], ret.chainId) \notin Docs(events)
          /\ ToDTO(ret.batch[j], ret.chainId) \in Docs(events)

\* C7: the values written to a chain's Progress record never decrease,
\* within a run and from one run to the next.
C7_ProgressNonDecreasing ==
    [][\A c \in Chains :
        Progress(blocks, c) # NoRecord
            => Progress(blocks', c) >= Progress(blocks, c)
      ]_vars

\* C8: a BlockchainError or DatabaseError raised by the fetch, store or
\* progress update of a window stops the task's run: the task rejects with
\* that class of error, the failing call leaves the chain's Progress as it
\* was, and for the rest of the run the task makes no further call.
C8_KnownErrorStopsRun ==
    [][\A t \in Tasks :
        /\ ( /\ pc[t] \in WindowPcs
             /\ call'[t] # call[t]
             /\ call'[t].res \in {BlockchainError, DatabaseError} )
           => /\ pc'[t] = "failed"
              /\ result'[t] = call'[t].res
              /\ Progress(blocks', ChainOf(t)) = Progress(blocks, ChainOf(t))
        /\ (pc[t] = "failed" /\ up')
           => /\ pc'[t] = "failed"
              /\ call'[t] = call[t]
              /\ result'[t] = result[t]
      ]_vars

\* a run stopped by a DatabaseError after an earlier window had completed
C8_Witness ==
    \E t \in Tasks :
        /\ pc[t] = "failed"
        /\ result[t] = DatabaseError
        /\ call[t].res = DatabaseError
        /\ Progress(blocks, ChainOf(t)) # NoRecord
        /\ Progress(blocks, ChainOf(t)) < call[t].from

\* C9: an error of any other class raised in a window stores nothing and
\* writes no Progress for that window, and the loop goes on with the next
\* window of the run.
C9_OtherErrorSkipsWindow ==
    [][\A t \in Tasks :
        ( /\ pc[t] \in WindowPcs
          /\ call'[t] # call[t]
          /\ call'[t].res \notin {Ok, BlockchainError, DatabaseError} )
        => /\ call'[t].op # "updateLastScannedBlock"
           /\ events' = events
           /\ blocks' = blocks
           /\ LoopTest(currentBlock[t] + chunkSize, toBlock[t])
                => /\ pc'[t] = "fetch"
                   /\ currentBlock'[t] = currentBlock[t] + chunkSize
      ]_vars

\* a window was skipped after a plain Error and the next one is to be fetched
C9_Witness ==
    \E t \in Tasks :
        /\ pc[t] = "fetch"
        /\ call[t].op = "scanBlockRange"
        /\ call[t].res = PlainError
        /\ currentBlock[t] = call[t].from + chunkSize

\* C10: after a run that an error stopped in some window, a later run in
\* which no call fails ends with every log of every block up to the chain
\* head stored.
C10_RerunStoresUpToHead ==
    \A t \in Tasks :
        ( /\ pc[t] = "done"
          /\ prev[t].outcome = "failed"
          /\ ~everSkipped[t] )
        => AllStoredUpTo(ChainOf(t), toBlock[t])

\* pc values of a task whose scanChain promise has settled
Settled == {"done", "failed", "rejected"}

\* some step of task t
TaskStep(t) == ScanChain(t) \/ Fetch(t) \/ Store(t) \/ Update(t)

\* C11: in scanAllChains an error that stops one task leaves every other
\* task as it is and able to take its next step, scanAllChains never
\* rejects, and it resolves only when every task has settled.
C11_FailureLeavesOtherTasksRunning ==
    [][/\ \A t \in Tasks :
            (pc[t] \notin {"failed", "rejected"} /\ pc'[t] \in {"failed", "rejected"})
               => \A u \in Tasks \ {t} :
                     /\ pc'[u] = pc[u]
                     /\ toBlock'[u] = toBlock[u]
                     /\ currentBlock'[u] = currentBlock[u]
                     /\ chunkEvents'[u] = chunkEvents[u]
                     /\ call'[u] = call[u]
                     /\ result'[u] = result[u]
       /\ \A u \in Tasks :
            (up /\ pc[u] \in {"scanChain", "fetch", "store", "update"})
               => ENABLED TaskStep(u)
       /\ allChains' # "rejected"
       /\ allChains' = "fulfilled" => \A t \in Tasks : pc'[t] \in Settled
      ]_vars

\* scanAllChains resolved after one task failed in a window and the task
\* of another chain completed its windows
C11_Witness ==
    /\ allChains = "fulfilled"
    /\ \E t, u \in Tasks :
          /\ ChainOf(t) # ChainOf(u)
          /\ pc[t] = "failed"
          /\ pc[u] = "done"
          /\ call[u].op = "updateLastScannedBlock"
          /\ call[u].res = Ok

\* C12: with the database answering, storeEvents(<<e>>, a) for an event e
\* whose identity is not stored, while another chain holds a record with
\* the transactionHash and logIndex of e, returns without error and the
\* record of e for chain a is stored afterwards.
C12_CrossChainStoreSucceeds ==
    [][( /\ ret'.op = "storeEvents"
         /\ ret'.dbUp
         /\ Len(ret'.batch) = 1
         /\ ~Stored(ret'.chainId, ret'.batch[1])
         /\ \E d \in Docs(events) :
               /\ d.chainId # ret'.chainId
               /\ IndexKey(d) = IndexKey(ToDTO(ret'.batch[1], ret'.chainId)) )
        => /\ ret'.res = Ok
           /\ ToDTO(ret'.batch[1], ret'.chainId) \in Docs(events')
      ]_vars

\* C13: a task's updateLastScannedBlock(c, n) leaves the Progress record of
\* every other chain as it was, whatever the other tasks did before, and
\* when it succeeds the one record of chain c holds n.
C13_UpdateTouchesOwnRecordOnly ==
    [][\A t \in Tasks :
        (call'[t] # call[t] /\ call'[t].op = "updateLastScannedBlock")
           => /\ \A c \in Chains \ {ChainOf(t)} : FindOne(blocks', c) = FindOne(blocks, c)
              /\ call'[t].res = Ok
                    => FindOne(blocks', ChainOf(t)) =
                          {[chainId |-> ChainOf(t), blockNumber |-> call'[t].to]}
      ]_vars

\* a task wrote its chain's record while the other chain had a record with
\* another value
C13_Witness ==
    \E t \in Tasks : \E c \in Chains \ {ChainOf(t)} :
        /\ call[t].op = "updateLastScannedBlock"
        /\ call[t].res = Ok
        /\ Progress(blocks, c) # NoRecord
        /\ Progress(blocks, c) # Progress(blocks, ChainOf(t))

\* the calls a task makes inside the chunk loop
LoopCalls == {"scanBlockRange", "storeEvents", "updateLastScannedBlock"}

\* C14: a task starts the fetch of a window only as the first call of the
\* loop, or after the progress update of the window before it returned, or
\* after a call of the window before it failed; never while the store or
\* the progress update of a fetched window is still to be done.
C14_OneWindowInFlight ==
    [][\A t \in Tasks :
        (call'[t] # call[t] /\ call'[t].op = "scanBlockRange" /\ call[t].op \in LoopCalls)
           => /\ \/ call[t].op = "updateLastScannedBlock"
                 \/ call[t].res # Ok
              /\ call'[t].from = call[t].from + chunkSize
              /\ pc[t] = "fetch"
      ]_vars

\* the second window of a run was fetched after the first was stored and
\* its progress written
C14_Witness ==
    \E t \in Tasks :
        /\ prev[t].outcome = "none"
        /\ ~everSkipped[t]
        /\ call[t].op = "scanBlockRange"
        /\ call[t].res = Ok
        /\ Progress(blocks, ChainOf(t)) # NoRecord
        /\ Progress(blocks, ChainOf(t)) = call[t].from - 1

\* C15: no two tasks that scanAllChains started scan the same chain.
C15_OneTaskPerChain ==
    \A t, u \in Tasks :
        (t # u /\ pc[t] # "idle" /\ pc[u] # "idle") => ChainOf(t) # ChainOf(u)

\* C16: a run that scanned windows (it started below the head), met no
\* error and has ended leaves the chain's Progress equal to the head.
C16_ProgressReachesHead ==
    \A t \in Tasks :
        ( /\ pc[t] = "done"
          /\ ~everSkipped[t]
          /\ call[t].op = "updateLastScannedBlock" )
        => Progress(blocks, ChainOf(t)) = toBlock[t]

\* C17: a task whose start block is at or above the head it read ends at
\* once: it makes no fetch, no store and no progress update, and the
\* collection and the Progress records stay as they were.
C17_UpToDateDoesNothing ==
    [][\A t \in Tasks :
        /\ ( /\ pc[t] = "scanChain"
             /\ call'[t] # call[t]
             /\ call'[t].res = Ok
             /\ GetLastScannedBlock(blocks, ChainOf(t)) >= toBlock'[t] )
           => /\ pc'[t] = "done"
              /\ call'[t].op \notin LoopCalls
              /\ events' = events
              /\ blocks' = blocks
        /\ (pc[t] = "done" /\ up')
           => /\ pc'[t] = "done"
              /\ call'[t] = call[t]
      ]_vars

\* a later run found the chain's Progress at or above the head and ended
C17_Witness ==
    \E t \in Tasks :
        /\ pc[t] = "done"
        /\ call[t].op = "getLatestBlock"
        /\ Progress(blocks, ChainOf(t)) # NoRecord
        /\ Progress(blocks, ChainOf(t)) >= toBlock[t]

\* C18: for a window whose fetch returned no event, storeEvents returns
\* without error and adds nothing, the progress update is the next call,
\* and when it succeeds the chain's Progress is the window's end block.
C18_EmptyWindowAdvances ==
    [][\A t \in Tasks :
        /\ ( /\ pc[t] = "store"
             /\ chunkEvents[t] = << >>
             /\ call'[t] # call[t]
             /\ call'[t].op = "storeEvents" )
           => /\ events' = events
              /\ call'[t].res = Ok
              /\ pc'[t] = "update"
        /\ ( /\ pc[t] = "update"
             /\ chunkEvents[t] = << >>
             /\ call'[t] # call[t]
             /\ call'[t].op = "updateLastScannedBlock"
             /\ call'[t].res = Ok )
           => /\ Progress(blocks', ChainOf(t)) =
                    ChunkEndBlock(currentBlock[t], chunkSize, toBlock[t])
              /\ events' = events
      ]_vars

\* Progress was set to the end of a window that held no event while the
\* collection is still empty
C18_Witness ==
    \E t \in Tasks :
        /\ call[t].op = "updateLastScannedBlock"
        /\ call[t].res = Ok
        /\ chunkEvents[t] = << >>
        /\ QueryFilter(ChainOf(t), call[t].from, call[t].to) = << >>
        /\ Progress(blocks, ChainOf(t)) = call[t].to
        /\ events = EmptyBag

\* C19: every window a task passes to scanBlockRange lies inside the range
\* up to the head, is not empty and not longer than chunkSize, and starts
\* above the end of the window the task fetched before it.
C19_WindowBounds ==
    [][\A t \in Tasks :
        (call'[t] # call[t] /\ call'[t].op = "scanBlockRange")
           => /\ call'[t].from <= call'[t].to
              /\ call'[t].to <= toBlock'[t]
              /\ call'[t].to - call'[t].from + 1 <= chunkSize
              /\ call[t].op \in LoopCalls => call'[t].from > call[t].to
      ]_vars

\* ceil(a / b) for b >= 1
Ceil(a, b) == (a + b - 1) \div b

\* C20: a run that scanned from..to with from < to, no window failing, made
\* ceil((to - from) / chunkSize) scanBlockRange calls when it has ended.
C20_FetchCount ==
    \A t \in Tasks :
        ( /\ pc[t] = "done"
          /\ ~everSkipped[t]
          /\ chunkSize >= 1
          /\ call[t].op = "updateLastScannedBlock"
          /\ runFrom[t] < toBlock[t] )
        => fetches[t] = Ceil(toBlock[t] - runFrom[t], chunkSize)

\* an ended run of two windows over a range the chunk size does not divide
C20_Witness ==
    \E t \in Tasks :
        /\ pc[t] = "done"
        /\ ~everSkipped[t]
        /\ call[t].op = "updateLastScannedBlock"
        /\ fetches[t] = 2
        /\ chunkSize >= 2
        /\ (toBlock[t] - runFrom[t]) % chunkSize # 0

\* the step in which task t leaves scanChain's head for the chunk loop
EntersLoop(t) == pc[t] = "scanChain" /\ pc'[t] = "fetch"

\* the step in which task t makes the first scanBlockRange call of its run
FirstFetch(t) ==
    /\ call[t].op = "getLatestBlock"
    /\ call'[t] # call[t]
    /\ call'[t].op = "scanBlockRange"

\* C21 as stated: the first window of a run starts at cursor + 1 when the
\* chain has a Progress record with value cursor, and at the chain's
\* configured start block when it has none.
C21_FirstWindowAfterCursor ==
    [][\A t \in Tasks :
        /\ EntersLoop(t)
             => runFrom'[t] = IF Progress(blocks, ChainOf(t)) = NoRecord
                              THEN StartBlock(ChainOf(t))
                              ELSE Progress(blocks, ChainOf(t)) + 1
        /\ FirstFetch(t) => call'[t].from = runFrom[t]
      ]_vars

\* C21 amended: the first window of a run starts at the block the Progress
\* record holds (the cursor itself), and at the chain's configured start
\* block when the chain has no record.
C21_FirstWindowAtCursor ==
    [][\A t \in Tasks :
        /\ EntersLoop(t)
             => runFrom'[t] = IF Progress(blocks, ChainOf(t)) = NoRecord
                              THEN StartBlock(ChainOf(t))
                              ELSE Progress(blocks, ChainOf(t))
        /\ FirstFetch(t) => call'[t].from = runFrom[t]
      ]_vars

\* the first window of a later run was fetched from the cursor an earlier
\* run left above the start block
C21_Witness ==
    \E t \in Tasks :
        /\ fetches[t] = 1
        /\ call[t].op = "scanBlockRange"
        /\ Progress(blocks, ChainOf(t)) > StartBlock(ChainOf(t))
        /\ call[t].from = Progress(blocks, ChainOf(t))

\* C22: getLastScannedBlock(c) returns the blockNumber of the Progress
\* record of c when there is one, otherwise the start block configured for
\* c, 0 when config.chains has no entry for c; the call leaves every record
\* as it was.
C22_GetReturnsStoredOrStart ==
    [][ret'.op = "getLastScannedBlock"
        => /\ blocks' = blocks
           /\ ret'.res = Ok
                => /\ \A b \in blocks : b.chainId = ret'.chainId => ret'.value = b.blockNumber
                   /\ (\A b \in blocks : b.chainId # ret'.chainId)
                         => ret'.value = IF ret'.chainId \in Chains
                                         THEN StartBlock(ret'.chainId) ELSE 0
      ]_vars

\* the call returned the value of a record that is not the chain's start
\* block, while another chain had a record too
C22_Witness ==
    /\ ret.op = "getLastScannedBlock"
    /\ ret.res = Ok
    /\ ret.chainId \in Chains
    /\ ret.value # StartBlock(ret.chainId)
    /\ [chainId |-> ret.chainId, blockNumber |-> ret.value] \in blocks
    /\ Cardinality(blocks) > 1

\* this step is an updateLastScannedBlock(c, n) that returned without
\* error, made by a direct caller or by a chain task
Wrote(c, n) ==
    \/ /\ ret'.op = "updateLastScannedBlock"
       /\ ret'.res = Ok
       /\ ret'.chainId = c
       /\ ret'.blockNumber = n
    \/ \E t \in Tasks :
          /\ call'[t] # call[t]
          /\ call'[t].op = "updateLastScannedBlock"
          /\ call'[t].res = Ok
          /\ ChainOf(t) = c
          /\ call'[t].to = n

\* C23: whatever updateLastScannedBlock calls were made, in whatever order
\* and for whatever chains, each chainId has at most one Progress record;
\* a call that returns sets the record of its chain to its value, and no
\* other step changes that record: the record holds the latest write.
C23_OneRecordLastWriteWins ==
    [][\A c \in CallerChainIds :
        /\ Cardinality(FindOne(blocks', c)) <= 1
        /\ \A n \in CallerBlocks :
              Wrote(c, n) => FindOne(blocks', c) = {[chainId |-> c, blockNumber |-> n]}
        /\ (\A n \in CallerBlocks : ~Wrote(c, n)) => FindOne(blocks', c) = FindOne(blocks, c)
      ]_vars

\* a chain's record was overwritten with a lower value while another chain
\* has a record
C23_Witness ==
    /\ ret.op = "updateLastScannedBlock"
    /\ ret.res = Ok
    /\ FindOne(blocks, ret.chainId) = {[chainId |-> ret.chainId, blockNumber |-> 0]}
    /\ \E b \in blocks : b.chainId # ret.chainId /\ b.blockNumber > 0

\* C30: updateLastScannedBlock(c, n) with n < 0 raises a ValidationError,
\* whether or not the database answers, and leaves every Progress record
\* as it was.
C30_NegativeBlockRejected ==
    [][(ret'.op = "updateLastScannedBlock" /\ ret'.blockNumber < 0)
        => /\ ret'.res = ValidationError
           /\ blocks' = blocks
      ]_vars

\* a negative block number was refused for a chain whose record holds a
\* block above 0
C30_Witness ==
    /\ ret.op = "updateLastScannedBlock"
    /\ ret.blockNumber < 0
    /\ ret.res = ValidationError
    /\ ret.dbUp
    /\ \E b \in blocks : b.chainId = ret.chainId /\ b.blockNumber > 0

\* C24: with the database answering, a storeEvents call whose batch holds
\* an event that violates FeeCollectedEventSchema raises a ValidationError
\* and leaves the collection as it was, whatever the collection holds.
C24_InvalidBatchRejected ==
    [][( /\ ret'.op = "storeEvents"
         /\ ret'.dbUp
         /\ \E i \in DOMAIN ret'.batch : ~FeeCollectedEventSchema(ret'.batch[i]) )
        => /\ ret'.res = ValidationError
           /\ events' = events
      ]_vars

\* the batch of the call made in this step holds one identity twice
SameIdentityTwice ==
    \E i, j \in DOMAIN ret'.batch :
        /\ i # j
        /\ Key(ToDTO(ret'.batch[i], ret'.chainId)) = Key(ToDTO(ret'.batch[j], ret'.chainId))

\* C25: with the database answering, a storeEvents call whose events are
\* all valid and whose batch holds one identity twice returns without
\* error, and afterwards every identity of the batch is stored.
C25_DuplicateKeySwallowed ==
    [][( /\ ret'.op = "storeEvents"
         /\ ret'.dbUp
         /\ \A i \in DOMAIN ret'.batch : FeeCollectedEventSchema(ret'.batch[i])
         /\ SameIdentityTwice )
        => /\ ret'.res = Ok
           /\ \A i \in DOMAIN ret'.batch :
                 \E d \in Docs(events') : Key(d) = Key(ToDTO(ret'.batch[i], ret'.chainId))
      ]_vars

\* C26: a storeEvents call that fails with a DatabaseError leaves the
\* collection as it was: no document of the batch is persisted.
C26_FailedStorePersistsNothing ==
    [][(ret'.op = "storeEvents" /\ ret'.res = DatabaseError) => events' = events]_vars

\* C27: whenever the provider call of a head read or of a window fetch
\* throws, the task's getLatestBlock or scanBlockRange call ends in a
\* BlockchainError, whatever message the provider's error carries.
C27_ProviderFailureIsBlockchainError ==
    [][\A t \in Tasks :
        ( /\ call'[t] # call[t]
          /\ call'[t].op \in {"getLatestBlock", "scanBlockRange"}
          /\ call'[t].from <= call'[t].to
          /\ call'[t].fault \in ProviderFailures )
        => call'[t].res = BlockchainError
      ]_vars

\* a Fetch step of task t in which the provider served a log that fails
\* FeeCollectedEventSchema
MalformedFetch(t) ==
    /\ call'[t] # call[t]
    /\ call'[t].op = "scanBlockRange"
    /\ call'[t].fault = "malformed log"
    /\ QueryFilter(ChainOf(t), call'[t].from, call'[t].to) # << >>

\* C28: when a decoded log of a window fails the schema, the fetch ends in
\* a BlockchainError and hands over no event; the step stores nothing and
\* writes no Progress, and the task's next call, if it makes one, is not
\* the store or the progress update of that window.
C28_MalformedLogInvalidatesWindow ==
    [][\A t \in Tasks :
        /\ MalformedFetch(t)
             => /\ call'[t].res = BlockchainError
                /\ chunkEvents'[t] = chunkEvents[t]
                /\ events' = events
                /\ blocks' = blocks
                /\ pc'[t] \notin {"store", "update"}
        /\ ( /\ call[t].op = "scanBlockRange"
             /\ call[t].fault = "malformed log"
             /\ call[t].res # Ok
             /\ call'[t] # call[t]
             /\ up' )
             => /\ call'[t].op \notin {"storeEvents", "updateLastScannedBlock"}
                /\ events' = events
                /\ Progress(blocks', ChainOf(t)) = Progress(blocks, ChainOf(t))
      ]_vars

\* the second window of a run held a malformed log: the task has failed
\* and the chain's Progress is still the end of the first window
C28_Witness ==
    \E t \in Tasks :
        /\ call[t].op = "scanBlockRange"
        /\ call[t].fault = "malformed log"
        /\ call[t].res = BlockchainError
        /\ QueryFilter(ChainOf(t), call[t].from, call[t].to) # << >>
        /\ Progress(blocks, ChainOf(t)) # NoRecord
        /\ Progress(blocks, ChainOf(t)) < call[t].to
        /\ pc[t] = "failed"

\* C29: loadFeeCollectorEvents(c, from, to) with from > to raises a
\* ValidationError and makes no queryFilter call; with from = to it raises
\* no ValidationError and makes exactly one queryFilter call, for that
\* block alone, whose logs it returns when the provider answers.
C29_RangeCheckedBeforeQuery ==
    [][ret'.op = "loadFeeCollectorEvents"
        => /\ ret'.from > ret'.to
                => /\ ret'.res = ValidationError
                   /\ ret'.queries = << >>
           /\ ret'.from = ret'.to
                => /\ ret'.res # ValidationError
                   /\ ret'.queries = << <<ret'.from, ret'.from>> >>
                   /\ ret'.fault = "none"
                         => /\ ret'.res = Ok
                            /\ \A i \in DOMAIN ChainLogs(ret'.chainId) :
                                  ChainLogs(ret'.chainId)[i].blockNumber = ret'.from
                                     <=> ChainLogs(ret'.chainId)[i] \in Range(ret'.events)
      ]_vars

\* a query for a single block returned the log of that block
C29_Witness ==
    /\ ret.op = "loadFeeCollectorEvents"
    /\ ret.from = ret.to
    /\ ret.res = Ok
    /\ ret.queries = << <<ret.from, ret.to>> >>
    /\ Len(ret.events) = 1

\* C31: storeEvents(<< >>, c) returns without error and leaves the
\* collection as it was, also while the database does not answer: it
\* neither reads nor writes.
C31_EmptyBatchIsNoOp ==
    [][(ret'.op = "storeEvents" /\ ret'.batch = << >>)
        => /\ ret'.res = Ok
           /\ events' = events
      ]_vars

\* an empty batch was accepted while the database was down and the
\* collection held a document
C31_Witness ==
    /\ ret.op = "storeEvents"
    /\ ret.batch = << >>
    /\ ~ret.dbUp
    /\ ret.res = Ok
    /\ events # EmptyBag

\* C32: when the SIGINT or SIGTERM handler ends the process, no task is
\* inside a window: every window that was fetched has had its store and
\* its progress update.
C32_ShutdownCompletesWindow ==
    [][(up /\ ~up') => \A t \in Tasks : pc[t] \notin {"store", "update"}]_vars

\* C33: no step deletes a stored event or changes a field of one: every
\* document of the collection is still in it, unchanged, after the step.
C33_StoredEventsOnlyGrow ==
    [][\A d \in Docs(events) : CopiesIn(d, events') >= CopiesIn(d, events)]_vars

\* the collection holds two documents after a call that offered a stored
\* identity with another fee
C33_Witness ==
    /\ ret.op = "storeEvents"
    /\ Cardinality(Docs(events)) >= 2
    /\ \E i \in DOMAIN ret.batch :
          /\ Stored(ret.chainId, ret.batch[i])
          /\ ToDTO(ret.batch[i], ret.chainId) \notin Docs(events)

\* the value of a string of at most four decimal digits
GroupValue(s) ==
    LET p == [k \in 1 .. (4 - Len(s)) |-> "0"] \o s
    IN 1000 * DigitValue(p[1]) + 100 * DigitValue(p[2])
          + 10 * DigitValue(p[3]) + DigitValue(p[4])

\* the number h times GroupBase plus carry, worked from its last limb
RECURSIVE TimesGroupPlus(_, _, _)
TimesGroupPlus(h, carry, acc) ==
    IF h = << >> THEN (IF carry = 0 THEN acc ELSE <<carry>> \o acc)
    ELSE LET v == h[Len(h)] * GroupBase + carry
         IN TimesGroupPlus(SubSeq(h, 1, Len(h) - 1), v \div LimbBase,
                           <<v % LimbBase>> \o acc)

\* the integer a decimal string denotes, as limbs: the integer of the
\* string without its last four digits, times GroupBase, plus those digits
RECURSIVE ParseInteger(_)
ParseInteger(s) ==
    IF Len(s) <= 4 THEN StripZeros(<<GroupValue(s)>>)
    ELSE TimesGroupPlus(ParseInteger(SubSeq(s, 1, Len(s) - 4)),
                        GroupValue(SubSeq(s, Len(s) - 3, Len(s))), << >>)

\* the fee strings a decoded log of the chains can carry, each with the
\* integer it denotes
DecodedFees ==
    UNION {UNION {{ChainLogs(c)[k].args.integratorFee, ChainLogs(c)[k].args.lifiFee} :
                     k \in DOMAIN ChainLogs(c)} : c \in Chains}

FeeValues == {<<s, ParseInteger(s)>> : s \in {x \in DecodedFees : IsNumberString(x)}}

\* document d is log raw of chain c, field for field, with fee strings that
\* denote the integers of the log
RecordsLog(d, raw, c) ==
    /\ d.chainId = c
    /\ d.token = raw.args[1]
    /\ d.integrator = raw.args[2]
    /\ d.blockNumber = raw.blockNumber
    /\ d.transactionHash = raw.transactionHash
    /\ d.logIndex = raw.logIndex
    /\ <<d.integratorFee, StripZeros(raw.args[3])>> \in FeeValues
    /\ <<d.lifiFee, StripZeros(raw.args[4])>> \in FeeValues

\* C34: every document a window's store adds carries the chain id of the
\* task and the token, integrator, block number, transaction hash and log
\* index of a log of that chain inside the window, and its integratorFee
\* and lifiFee are decimal strings that denote exactly the uint256 values
\* of that log, up to 2^256 - 1.
C34_StoredEventIsTheFetchedLog ==
    [][\A t \in Tasks :
          (pc[t] = "store" /\ call'[t].op = "storeEvents") =>
             \A d \in Docs(events') :
                CopiesIn(d, events') > CopiesIn(d, events) =>
                   \E k \in DOMAIN RawChainLogs(ChainOf(t)) :
                      /\ RecordsLog(d, RawChainLogs(ChainOf(t))[k], ChainOf(t))
                      /\ RawChainLogs(ChainOf(t))[k].blockNumber
                            \in call'[t].from .. call'[t].to
      ]_vars

\* the log whose integratorFee is 2^256 - 1 is stored with its 78 digits
C34_Witness ==
    \E d \in Docs(events) :
       /\ RecordsLog(d, EthereumLogs[3], 1)
       /\ Len(d.integratorFee) = 78

\* C35: no chain scan is under way with a chunkSize below 1: a CHUNK_SIZE
\* of 0 is turned down when the configuration is read, before scanChain
\* runs for any chain.
C35_ChunkSizeAtLeastOne ==
    (\E t \in Tasks : pc[t] \in WindowPcs \cup {"scanChain"}) => chunkSize >= 1

\* a listed identifier is a chain id: a numeral of one of ChainIds
IsChainId(id) == id # << >> /\ IsNumberString(id) /\ NumeralValue(id) \in ChainIds

\* C36: parseEnabledChains yields <<137>> when ENABLED_CHAINS is missing or
\* empty; it throws when some listed identifier is not one of the chain
\* ids 1, 10, 56, 100, 137, 8453; otherwise it yields the listed
\* identifiers in their order.
C36_EnabledChainsParsed ==
    [][ret'.op = "parseEnabledChains" =>
          LET env == ret'.setting
              ids == Split(env.text, << >>)
          IN IF ~env.defined \/ env.text = << >>
             THEN ret'.res = Ok /\ ret'.chains = <<POLYGON>>
             ELSE IF \E k \in DOMAIN ids : ~IsChainId(Trim(ids[k]))
             THEN ret'.res = PlainError
             ELSE /\ ret'.res = Ok
                  /\ ret'.chains = [k \in DOMAIN ids |-> NumeralValue(Trim(ids[k]))]
      ]_vars

\* C37: getEventsByIntegrator(c, a) returns the stored events whose chainId
\* is c and whose integrator is a, each as often as it is stored, and no
\* other; neither it nor the endpoint changes the collection; a 200
\* response carries meta.count equal to the number of events in data.events.
C37_ReadByIntegrator ==
    [][/\ ret'.op = "getEventsByIntegrator" =>
            /\ events' = events
            /\ ret'.res = Ok =>
                  \A d \in Docs(events) \cup Docs(ret'.events) :
                     CopiesIn(d, ret'.events) =
                        IF d.chainId = ret'.chainId /\ d.integrator = ret'.integrator
                        THEN CopiesIn(d, events) ELSE 0
       /\ ret'.op = "GET /events/integrator" =>
            /\ events' = events
            /\ ret'.response.status = 200 =>
                  /\ ret'.response.count = BagCardinality(ret'.response.events)
                  /\ \A d \in Docs(events) \cup Docs(ret'.response.events) :
                        CopiesIn(d, ret'.response.events) =
                           IF /\ d.chainId = NumeralValue(DigitPrefix(ret'.params.chainId))
                              /\ d.integrator = ret'.params.integrator
                           THEN CopiesIn(d, events) ELSE 0
      ]_vars

\* a read returned one of two stored events: the other is of the same
\* integrator on another chain, or of another integrator on the same chain
C37_Witness ==
    /\ ret.op = "getEventsByIntegrator"
    /\ ret.res = Ok
    /\ BagCardinality(ret.events) = 1
    /\ \E d \in Docs(events) :
          /\ d \notin Docs(ret.events)
          /\ d.chainId # ret.chainId \/ d.integrator # ret.integrator

\* C38: creating a record whose transactionHash and logIndex are those of
\* a stored record fails with a duplicate-key error and stores nothing,
\* whatever its chainId and blockNumber are.
C38_UniqueTransactionLogIndex ==
    [][(/\ ret'.op = "create"
        /\ \E x \in Docs(events) :
              /\ x.transactionHash = ret'.doc.transactionHash
              /\ x.logIndex = ret'.doc.logIndex)
        => /\ ret'.res = DuplicateKeyError
           /\ events' = events
      ]_vars

\* a record was turned down whose chainId and blockNumber both differ from
\* those of the stored record with its transactionHash and logIndex
C38_Witness ==
    /\ ret.op = "create"
    /\ ret.res = DuplicateKeyError
    /\ \E x \in Docs(events) :
          /\ x.transactionHash = ret.doc.transactionHash
          /\ x.logIndex = ret.doc.logIndex
          /\ x.chainId # ret.doc.chainId
          /\ x.blockNumber # ret.doc.blockNumber

\* C39: a chain's run terminates for every chunkSize the configuration
\* lets through: each iteration of the window loop that is followed by
\* another one, after a stored window or after a skipped error, has moved
\* currentBlock forward, so the loop runs at most toBlock - fromBlock times.
C39_WindowLoopAdvances ==
    [][\A t \in Tasks :
          ((pc[t] = "update" \/ fetches'[t] > fetches[t]) /\ pc'[t] = "fetch")
             => currentBlock'[t] > currentBlock[t]
      ]_vars

\* C40: scanBlocks(c, from, to) scans from..to for every from and to it is
\* given, 0 included: the loop starts at from and ends at to, whatever the
\* stored Progress and the chain head are.
C40_ExplicitBoundsKept ==
    [][\A t \in Tasks :
          (runs' < runs /\ ret'.op = "scanBlocks" /\ ret'.res = Ok)
             => /\ currentBlock'[t] = ret'.from
                /\ toBlock'[t] = ret'.to
      ]_vars

====
